---- MODULE Spec2Model ----
(***************************************************************************)
(* Tristate numbers (tnum) of src/main.rs and the transfer functions built *)
(* on them, with fast_divide and the divisions it is compared with.        *)
(*                                                                         *)
(* A machine word (u64, u128) is modelled as the set of the positions of   *)
(* its one bits: bit i of the word is set iff i is in the set.  The word   *)
(* keeps its full width, so that wrapping, shifting out and the high half  *)
(* of a product are what the 64-bit and 128-bit code computes.             *)
(***************************************************************************)
EXTENDS Integers, FiniteSets, Sequences, TLC

\* width of u64 (main.rs: `let width = 64`)
W == 64
\* width of u128, the scratch width of TnumU128
W2 == 128

----------------------------------------------------------------------------
(* Machine words as sets of bit positions *)

\* the word of a small natural number
Bits(n) == {i \in 0..30 : (n \div (2 ^ i)) % 2 = 1}

RECURSIVE ToInt(_)
\* the natural number of a word that fits a model integer
ToInt(s) == IF s = {} THEN 0
            ELSE LET i == CHOOSE x \in s : TRUE IN (2 ^ i) + ToInt(s \ {i})

\* u64::MAX
U64_MAX == 0..(W - 1)

MaxBit(s) == CHOOSE x \in s : \A y \in s : y <= x
MinBit(s) == CHOOSE x \in s : \A y \in s : x <= y

\* a ^ b
bxor(a, b) == (a \ b) \cup (b \ a)
\* !a at width w
bnot(a, w) == (0..(w - 1)) \ a

\* a.wrapping_shl(k) at width w: the shift amount is taken modulo the width
wrapping_shl(a, k, w) == LET s == k % w IN {i + s : i \in {j \in a : j + s < w}}
\* a.wrapping_shr(k) at width w
wrapping_shr(a, k, w) == LET s == k % w IN {i - s : i \in {j \in a : j >= s}}

RECURSIVE wrapping_add(_, _, _)
\* a.wrapping_add(b) at width w: carries are propagated until none is left
wrapping_add(a, b, w) ==
    IF b = {} THEN a
    ELSE wrapping_add(bxor(a, b), {i + 1 : i \in {j \in a \cap b : j + 1 < w}}, w)

RECURSIVE wrapping_sub(_, _, _)
\* a.wrapping_sub(b) at width w: borrows are propagated until none is left
wrapping_sub(a, b, w) ==
    IF b = {} THEN a
    ELSE wrapping_sub(bxor(a, b), {i + 1 : i \in {j \in b \ a : j + 1 < w}}, w)

RECURSIVE mul_bits(_, _, _, _, _, _)
\* acc plus b << i for every bit i of a in lo..hi, the low bits first
mul_bits(lo, hi, a, b, acc, w) ==
    IF a \cap (lo..hi) = {} THEN acc
    ELSE IF lo = hi THEN wrapping_add(acc, {j + lo : j \in {k \in b : k + lo < w}}, w)
    ELSE LET mid == (lo + hi) \div 2
             acc1 == mul_bits(lo, mid, a, b, acc, w)
         IN IF acc1 = acc THEN mul_bits(mid + 1, hi, a, b, acc, w)   \* (acc1 is computed first)
            ELSE mul_bits(mid + 1, hi, a, b, acc1, w)

\* a.wrapping_mul(b) at width w
wrapping_mul(a, b, w) ==
    IF Cardinality(a) <= Cardinality(b) THEN mul_bits(0, w - 1, a, b, {}, w)
    ELSE mul_bits(0, w - 1, b, a, {}, w)

\* unsigned a < b
ult(a, b) == \E i \in b \ a : \A j \in a \ b : j < i
\* unsigned a <= b
ule(a, b) == a = b \/ ult(a, b)

\* a.leading_zeros() at width w
leading_zeros(a, w) == IF a = {} THEN w ELSE w - 1 - MaxBit(a)
\* a.trailing_zeros() at width w
trailing_zeros(a, w) == IF a = {} THEN w ELSE MinBit(a)
\* a.leading_ones() at width w
leading_ones(a, w) == leading_zeros(bnot(a, w), w)
\* a.count_ones()
count_ones(a) == Cardinality(a)

\* restoring division, one bit of the quotient: s = [quot, rem] so far
div_bit(i, n, d, s) ==
    LET r1 == {j + 1 : j \in s.rem} \cup (IF i \in n THEN {0} ELSE {})
    IN IF ule(d, r1)
       THEN [quot |-> s.quot \cup {i}, rem |-> wrapping_sub(r1, d, W2 + 1)]
       ELSE [quot |-> s.quot, rem |-> r1]

RECURSIVE div_bits(_, _, _, _, _)
\* the quotient bits hi down to lo, the upper half of the range first
div_bits(hi, lo, n, d, s) ==
    IF hi = lo THEN div_bit(hi, n, d, s)
    ELSE LET mid == (hi + lo + 1) \div 2
             s1 == div_bits(hi, mid, n, d, s)
         IN IF s1 = s THEN div_bits(mid - 1, lo, n, d, s)   \* (s1 is computed first)
            ELSE div_bits(mid - 1, lo, n, d, s1)

\* unsigned n / d and n % d, d != 0
udivmod(n, d) == IF n = {} THEN [quot |-> {}, rem |-> {}]
                 ELSE div_bits(MaxBit(n), 0, n, d, [quot |-> {}, rem |-> {}])

\* (a as i64) < 0
is_neg64(a) == (W - 1) \in a
\* (a as i64).wrapping_neg()
wrapping_neg(a) == wrapping_sub({}, a, W)
\* (a as i64).wrapping_div(b as i64), b != 0: truncates toward zero,
\* i64::MIN / -1 wraps to i64::MIN
wrapping_div_i64(a, b) ==
    LET ma == IF is_neg64(a) THEN wrapping_neg(a) ELSE a
        mb == IF is_neg64(b) THEN wrapping_neg(b) ELSE b
        q  == udivmod(ma, mb).quot
    IN IF is_neg64(a) # is_neg64(b) THEN wrapping_neg(q) ELSE q \cap U64_MAX
\* (a as i64).wrapping_rem(b as i64), b != 0: the sign of the dividend
wrapping_rem_i64(a, b) ==
    LET ma == IF is_neg64(a) THEN wrapping_neg(a) ELSE a
        mb == IF is_neg64(b) THEN wrapping_neg(b) ELSE b
        r  == udivmod(ma, mb).rem
    IN IF is_neg64(a) THEN wrapping_neg(r) ELSE r
\* (a as i64) >> k, 0 <= k < 64
sar64(a, k) == wrapping_shr(a, k, W) \cup (IF is_neg64(a) THEN (W - k)..(W - 1) ELSE {})

----------------------------------------------------------------------------
(* u64 helpers of main.rs *)

\* BitOps::clear_low_bits for u64
clear_low_bits(x, n) == IF n >= W THEN {} ELSE x \cap wrapping_shl(U64_MAX, n, W)
\* BitOps::clear_high_bits for u64
clear_high_bits(x, n) == IF n >= W THEN {} ELSE x \cap (0..(W - n - 1))

----------------------------------------------------------------------------
(* Tnum: constructors and predicates *)

new(value, mask) == [value |-> value, mask |-> mask]
bottom == new(U64_MAX, U64_MAX)
top == new({}, U64_MAX)
const_val(value) == new(value, {})

from_range_low_bit_known(min, max) ==
    LET chi == bxor(min, max)
        bits == W - leading_zeros(chi, W)
    IN IF bits > W - 1 THEN new({}, U64_MAX)
       ELSE LET delta == wrapping_sub(wrapping_shl({0}, bits, W), {0}, W) \ {0}
            IN new(min \ delta, delta)
\* Tnum::from_range
from_range(min, max) ==
    LET chi == bxor(min, max)
        bits == W - leading_zeros(chi, W)
    IN IF bits > W - 1 THEN new({}, U64_MAX)
       ELSE LET delta == wrapping_sub(wrapping_shl({0}, bits, W), {0}, W)
            IN new(min \ delta, delta)

is_zero(t) == t.value = {} /\ t.mask = {}
is_bottom(t) == (t.value \cap t.mask) # {}
is_top(t) == t.value = {} /\ t.mask = U64_MAX
is_singleton(t) == t.mask = {}
is_nonnegative(t) == (W - 1) \notin t.value /\ (W - 1) \notin t.mask
is_negative(t) == (W - 1) \in t.value /\ (W - 1) \notin t.mask

count_min_leading_zeros(t) == leading_zeros(wrapping_add(t.value, t.mask, W), W)
count_min_trailing_zeros(t) == trailing_zeros(wrapping_add(t.value, t.mask, W), W)

\* Tnum::clear_high_bits
tnum_clear_high_bits(t, n) ==
    IF n >= W THEN new({}, {})
    ELSE new(t.value \cap (0..(W - n - 1)), t.mask \cap (0..(W - n - 1)))

tnum_lshift(t, shift) == new(wrapping_shl(t.value, shift, W), wrapping_shl(t.mask, shift, W))

tnum_rshift_no_mask(t, shift) == new(wrapping_shr(t.value, shift, W), t.mask)
tnum_rshift(t, shift) == new(wrapping_shr(t.value, shift, W), wrapping_shr(t.mask, shift, W))

\* the low six bits of a u64 shift amount: k % 64, and what wrapping_shr
\* keeps of `k as u32`
shift_amount(k) == ToInt(k \cap (0..5))

shl_const(t, k) ==
    IF is_bottom(t) THEN t
    ELSE IF is_top(t) THEN t
    ELSE LET shift == shift_amount(k)
         IN new(wrapping_shl(t.value, shift, W), wrapping_shl(t.mask, shift, W))

\* lshr_const that shifts value and leaves mask in place
lshr_const_keeps_mask(t, k) ==
    IF is_bottom(t) THEN t
    ELSE IF is_top(t) THEN t
    ELSE new(wrapping_shr(t.value, shift_amount(k), W), t.mask)

lshr_const(t, k) ==
    IF is_bottom(t) THEN t
    ELSE IF is_top(t) THEN t
    ELSE LET shift == shift_amount(k)
         IN new(wrapping_shr(t.value, shift, W), wrapping_shr(t.mask, shift, W))

ashr_const(t, k) ==
    IF is_bottom(t) THEN t
    ELSE IF is_top(t) THEN t
    ELSE LET shift == shift_amount(k)
             vsig == (W - 1) \in t.value
             msig == (W - 1) \in t.mask
         IN IF ~vsig /\ ~msig
            THEN new(wrapping_shr(t.value, shift, W), wrapping_shr(t.mask, shift, W))
            ELSE IF vsig /\ ~msig
            THEN new(sar64(t.value, shift), wrapping_shr(t.mask, shift, W))
            ELSE new(wrapping_shr(t.value, shift, W), sar64(t.mask, shift))

----------------------------------------------------------------------------
(* Tnum: order, join and meet *)

le_masks_only(t, other) ==
    IF is_top(other) \/ is_bottom(t) THEN TRUE
    ELSE IF is_bottom(other) \/ is_top(t) THEN FALSE
    ELSE IF t.value = other.value /\ t.mask = other.mask THEN TRUE
    ELSE IF (t.mask \ other.mask) # {} THEN FALSE
    ELSE TRUE
\* Tnum::le
le(t, other) ==
    IF is_top(other) \/ is_bottom(t) THEN TRUE
    ELSE IF is_bottom(other) \/ is_top(t) THEN FALSE
    ELSE IF t.value = other.value /\ t.mask = other.mask THEN TRUE
    ELSE IF (t.mask \ other.mask) # {} THEN FALSE
    ELSE (t.value \ other.mask) = other.value

eq(t, other) == le(t, other) /\ le(other, t)

or(t, other) ==
    IF le(t, other) THEN other
    ELSE IF le(other, t) THEN t
    ELSE LET mu == t.mask \cup other.mask
             this_know == t.value \ mu
             x_know == other.value \ mu
             disagree == bxor(this_know, x_know)
         IN new(this_know \cap x_know, mu \cup disagree)

and(t, other) ==
    IF le(t, other) THEN t
    ELSE IF le(other, t) THEN other
    ELSE LET mu1 == t.mask \cap other.mask
             mu2 == t.mask \cup other.mask
             this_known_v == t.value \ mu2
             x_known_v == other.value \ mu2
             disagree == bxor(this_known_v, x_known_v)
         IN IF disagree # {} THEN bottom
            ELSE new((t.value \cup other.value) \ mu1, mu1)

join(t, other) ==
    LET v == bxor(t.value, other.value)
        m == (t.mask \cup other.mask) \cup v
    IN new((t.value \cup other.value) \ m, m)

intersect(t, other) ==
    LET v == t.value \cup other.value
        mu == t.mask \cap other.mask
    IN new(v \ mu, mu)

contains(t, other) ==
    IF is_bottom(t) THEN FALSE
    ELSE IF is_bottom(other) THEN TRUE
    ELSE (t.value \ other.mask) = (other.value \ other.mask)
         /\ (t.mask \cup other.mask) = t.mask

----------------------------------------------------------------------------
(* Tnum: add, sub, xor, not, mul *)

\* the carry formula shared by Tnum::add (w = 64) and TnumU128::add (w = 128)
add_w(t, other, w) ==
    LET sm == wrapping_add(t.mask, other.mask, w)
        sv == wrapping_add(t.value, other.value, w)
        sigma == wrapping_add(sm, sv, w)
        chi == bxor(sigma, sv)
        mu == (chi \cup t.mask) \cup other.mask
    IN new(sv \ mu, mu)

add_no_carry(t, other) ==
    LET sv == wrapping_add(t.value, other.value, W)
        mu == t.mask \cup other.mask
    IN new(sv \ mu, mu)
add(t, other) == add_w(t, other, W)

sub(t, other) ==
    IF is_bottom(t) \/ is_bottom(other) THEN bottom
    ELSE IF is_top(t) \/ is_top(other) THEN top
    ELSE LET dv == wrapping_sub(t.value, other.value, W)
             alpha == wrapping_add(dv, t.mask, W)
             beta == wrapping_sub(dv, other.mask, W)
             chi == bxor(alpha, beta)
             mu == (chi \cup t.mask) \cup other.mask
         IN new(dv \ mu, mu)

xor(t, other) ==
    IF is_bottom(t) \/ is_bottom(other) THEN bottom
    ELSE IF is_top(t) \/ is_top(other) THEN top
    ELSE LET v == bxor(t.value, other.value)
             mu == t.mask \cup other.mask
         IN new(v \ mu, mu)

not(t) ==
    IF is_bottom(t) THEN bottom
    ELSE IF is_top(t) THEN top
    ELSE new(bnot(bxor(t.value, t.mask), W), t.mask)

\* one pass of the accumulation loop of Tnum::mul
mul_step_known_only(a, b, acc_m) ==
    IF 0 \in a.value THEN add(acc_m, new({}, b.mask))
    ELSE IF 0 \in a.mask THEN add(acc_m, new({}, b.mask))
    ELSE acc_m
mul_step(a, b, acc_m) ==
    IF 0 \in a.value THEN add(acc_m, new({}, b.mask))
    ELSE IF 0 \in a.mask THEN add(acc_m, new({}, b.value \cup b.mask))
    ELSE acc_m

\* the model follows a loop for at most 2^LoopLog passes: a multiply loop that
\* has not ended by then never ends (its multiplier is not being shifted)
LoopLog == 8

\* one pass of `while (a.value != 0) || (a.mask != 0)` in Tnum::mul;
\* s = [a, b, acc, n, ended], n the number of passes made
mul_pass(s) ==
    IF s.a.value = {} /\ s.a.mask = {} THEN [s EXCEPT !.ended = TRUE]
    ELSE [a |-> lshr_const(s.a, {0}), b |-> shl_const(s.b, {0}),
          acc |-> mul_step(s.a, s.b, s.acc), n |-> s.n + 1, ended |-> FALSE]

RECURSIVE mul_passes(_, _)
\* up to 2^k passes of the loop of Tnum::mul, in order
mul_passes(k, s) ==
    IF s.ended THEN s
    ELSE IF k = 0 THEN mul_pass(s)
    ELSE LET s1 == mul_passes(k - 1, s)
         IN IF s1.ended THEN s1 ELSE mul_passes(k - 1, s1)

\* the loop of Tnum::mul
mul_loop(a, b) ==
    mul_passes(LoopLog, [a |-> a, b |-> b, acc |-> new({}, {}), n |-> 0, ended |-> FALSE])

mul(t, other) ==
    IF is_bottom(t) \/ is_bottom(other) THEN bottom
    ELSE IF is_top(t) \/ is_top(other) THEN top
    ELSE LET acc_v == wrapping_mul(t.value, other.value, W)
             acc_m == mul_loop(t, other).acc
         IN add(new(acc_v, {}), acc_m)

\* a constant power of two as either operand becomes a shift; otherwise the
\* operand with fewer bits set in value | mask is the multiplier
mul_opt(t, other) ==
    IF t.mask = {} /\ count_ones(t.value) = 1
        THEN shl_const(other, Bits(trailing_zeros(t.value, W)))
    ELSE IF other.mask = {} /\ count_ones(other.value) = 1
        THEN shl_const(t, Bits(trailing_zeros(other.value, W)))
    ELSE IF count_ones(t.value \cup t.mask) <= count_ones(other.value \cup other.mask)
        THEN mul(t, other)
    ELSE mul(other, t)

\* `(val & (1u64 << bit)) != 0`, false for bit >= 64
testbit(val, bit) == bit < W /\ bit \in val

clear_bit(t, pos) == new(t.value \ {pos}, t.mask \ {pos})

\* the bit size of a tnum: the larger of the sizes of value and mask
size(t) ==
    LET a == W - leading_zeros(t.value, W)
        b == W - leading_zeros(t.mask, W)
    IN IF a < b THEN b ELSE a

max_val(t) == t.value \cup t.mask

RECURSIVE xtnum_mul_high(_, _, _)
\* n is the fuel; with no fuel left and an operand that is not a constant the
\* code returns the constant 0 (its panic! is commented out)
xtnum_mul_high(t, y, n) ==
    IF t.mask = {} /\ y.mask = {} THEN new(wrapping_mul(t.value, y.value, W), {})
    ELSE IF n = 0 THEN new({}, {})
    ELSE LET b == size(y)
         IN IF b = 0 THEN new({}, {})
            ELSE LET ym == testbit(y.mask, b - 1)
                     y_prime == clear_bit(y, b - 1)
                     p == IF ule(max_val(y_prime), max_val(t))
                          THEN xtnum_mul_high(y_prime, t, n - 1)
                          ELSE xtnum_mul_high(t, y_prime, n - 1)
                     s == add(p, shl_const(t, Bits(b - 1)))
                 IN IF ym THEN join(s, p) ELSE s

\* the fuel xtnum_mul_high_top passes: the bits set in value or mask of both
top_fuel(t, other) == count_ones(max_val(t)) + count_ones(max_val(other))

xtnum_mul_high_top(t, other) == xtnum_mul_high(t, other, top_fuel(t, other))

----------------------------------------------------------------------------
(* Tnum: shifts by a tnum amount *)

\* `if max_value > w { w } else { max_value }`
clamp_shift(max_value) == IF ult(Bits(W), max_value) THEN W ELSE ToInt(max_value)

\* the guard of the `continue` in the loop of Tnum::shl
shl_skips(x, i) == x.value = (Bits(i) \ x.mask)

\* most joins the loop of Tnum::shl makes before it gives up
MaxJoin == 8

\* one pass of `for i in min_shift_amount..=max_shift_amount` in Tnum::shl;
\* s = [res, join_count, ret]: ret when the loop returned top from inside
shl_pass(t, x, i, s) ==
    IF shl_skips(x, i) THEN s
    ELSE LET tmp == shl_const(t, Bits(i))
             res1 == or(s.res, tmp)
         IN IF s.join_count + 1 > MaxJoin \/ is_top(res1)
            THEN [res |-> top, join_count |-> s.join_count + 1, ret |-> TRUE]
            ELSE [res |-> res1, join_count |-> s.join_count + 1, ret |-> FALSE]

RECURSIVE shl_passes(_, _, _, _, _)
\* the passes for i in lo..hi, in order
shl_passes(t, x, lo, hi, s) ==
    IF s.ret \/ lo > hi THEN s
    ELSE IF lo = hi THEN shl_pass(t, x, lo, s)
    ELSE LET mid == (lo + hi) \div 2
             s1 == shl_passes(t, x, lo, mid, s)
         IN IF s1.ret THEN s1 ELSE shl_passes(t, x, mid + 1, hi, s1)

\* the loop of Tnum::shl
shl_loop(t, x, min_shift_amount, max_shift_amount) ==
    shl_passes(t, x, min_shift_amount, max_shift_amount,
               [res |-> bottom, join_count |-> 0, ret |-> FALSE])

shl(t, x) ==
    IF is_bottom(t) \/ is_bottom(x) THEN bottom
    ELSE IF is_top(t) \/ is_top(x) THEN top
    ELSE IF is_singleton(x) THEN shl_const(t, x.value)
    ELSE IF t.mask = U64_MAX
    THEN new({}, wrapping_shl(U64_MAX, shift_amount(x.value), W))
    ELSE LET max_value == wrapping_add(x.value, x.mask, W)
             max_shift_amount == clamp_shift(max_value)
         IN IF x.value = {} /\ max_shift_amount = W
            THEN LET min_trailing_zeros == count_min_trailing_zeros(t)
                 IN new({}, clear_low_bits(U64_MAX, min_trailing_zeros))
            ELSE LET l == IF ult(Bits(W), x.value)
                          THEN [ret |-> FALSE, res |-> bottom]   \* an empty range
                          ELSE shl_loop(t, x, ToInt(x.value), max_shift_amount)
                 IN IF l.ret THEN top
                    ELSE IF is_bottom(l.res) THEN top ELSE l.res

\* one pass of `for i in min_shift_amount..=max_shift_amount` in Tnum::lshr;
\* s = [res, ret]: ret when the loop returned max_res from inside
lshr_pass(t, i, s) ==
    LET res1 == or(s.res, lshr_const(t, Bits(i)))
    IN [res |-> res1, ret |-> is_top(res1)]

RECURSIVE lshr_passes(_, _, _, _)
\* the passes for i in lo..hi, in order
lshr_passes(t, lo, hi, s) ==
    IF s.ret \/ lo > hi THEN s
    ELSE IF lo = hi THEN lshr_pass(t, lo, s)
    ELSE LET mid == (lo + hi) \div 2
             s1 == lshr_passes(t, lo, mid, s)
         IN IF s1.ret THEN s1 ELSE lshr_passes(t, mid + 1, hi, s1)

\* the loop of Tnum::lshr
lshr_loop(t, min_shift_amount, max_shift_amount) ==
    lshr_passes(t, min_shift_amount, max_shift_amount, [res |-> bottom, ret |-> FALSE])

\* `len + x.value` of Tnum::lshr leaves u64: an overflow check is compiled in
\* (debug) or the sum wraps (release)
lshr_overflows(t, x) ==
    ~is_bottom(t) /\ ~is_bottom(x) /\ ~is_top(t) /\ ~is_top(x) /\ ~is_singleton(x)
    /\ ult(wrapping_add(Bits(leading_zeros(t.value, W)), x.value, W), x.value)

\* Tnum::lshr where the sum wraps
lshr(t, x) ==
    IF is_bottom(t) \/ is_bottom(x) THEN bottom
    ELSE IF is_top(t) \/ is_top(x) THEN top
    ELSE IF is_singleton(x) THEN lshr_const(t, x.value)
    ELSE LET len == leading_zeros(t.value, W)
             max_value == wrapping_add(x.value, x.mask, W)
             max_shift_amount == clamp_shift(max_value)
             sum == wrapping_add(Bits(len), x.value, W)
         IN IF ule(Bits(W), sum) THEN new({}, {})
            ELSE LET max_res == tnum_clear_high_bits(top, ToInt(sum))
                     l == IF ult(Bits(W), x.value)
                          THEN [ret |-> FALSE, res |-> bottom]   \* an empty range
                          ELSE lshr_loop(t, ToInt(x.value), max_shift_amount)
                 IN IF l.ret THEN max_res
                    ELSE IF is_bottom(l.res) THEN max_res ELSE l.res

----------------------------------------------------------------------------
(* Tnum: division and remainder *)

\* signed a < b
slt(a, b) == IF is_neg64(a) # is_neg64(b) THEN is_neg64(a) ELSE ult(a, b)

I64_MIN == {W - 1}
I64_MAX == 0..(W - 2)

get_signed_min_value(t) == IF (W - 1) \in t.value THEN t.value \cup t.mask ELSE t.value
get_signed_max_value(t) == IF (W - 1) \in t.value THEN t.value ELSE t.value \cup t.mask

get_zero_circle(t) ==
    IF (W - 1) \in t.value THEN new(I64_MAX, I64_MAX)
    ELSE IF (W - 1) \in t.mask THEN new(t.value, t.mask \cap I64_MAX)
    ELSE t

get_one_circle(t) ==
    IF (W - 1) \in t.value THEN t
    ELSE IF (W - 1) \in t.mask THEN new(t.value \cup {W - 1}, t.mask \ {W - 1})
    ELSE new(U64_MAX, U64_MAX)

\* `self.value + self.mask` of Tnum::udiv leaves u64
udiv_overflows(t, other) ==
    ~is_bottom(t) /\ ~is_bottom(other) /\ ~is_top(t) /\ ~is_top(other)
    /\ other.value # {}
    /\ W \in wrapping_add(t.value, t.mask, W + 1)

udiv_known_bits_only(t, other) ==
    IF is_bottom(t) \/ is_bottom(other) THEN bottom
    ELSE IF is_top(t) \/ is_top(other) THEN top
    ELSE IF other.value = {} THEN top
    ELSE LET MaxRes == udivmod(t.value, other.value).quot
             leadz == leading_zeros(MaxRes, W)
         IN new({}, clear_high_bits(U64_MAX, leadz))
\* Tnum::udiv
udiv(t, other) ==
    IF is_bottom(t) \/ is_bottom(other) THEN bottom
    ELSE IF is_top(t) \/ is_top(other) THEN top
    ELSE IF other.value = {} THEN top
    ELSE LET MaxRes == udivmod(wrapping_add(t.value, t.mask, W), other.value).quot
             leadz == leading_zeros(MaxRes, W)
         IN new({}, clear_high_bits(U64_MAX, leadz))

\* the extremal quotient `tmp` of Tnum::signed_div (0 when no case applies)
signed_div_tmp(t, other) ==
    IF is_negative(t) /\ is_negative(other)
    THEN LET denom == get_signed_max_value(other)
             num == get_signed_min_value(t)
         IN IF ~(num = I64_MIN /\ denom = I64_MAX)
            THEN wrapping_div_i64(num, denom) ELSE I64_MAX
    ELSE IF is_negative(t) /\ is_nonnegative(other)
    THEN LET neg_lhs_max == wrapping_neg(get_signed_max_value(t))
         IN IF ~slt(neg_lhs_max, get_signed_max_value(other))
            THEN wrapping_div_i64(get_signed_min_value(t), get_signed_min_value(other))
            ELSE {}
    ELSE IF is_nonnegative(t) /\ is_negative(other)
    THEN LET neg_rhs_min == wrapping_neg(get_signed_min_value(other))
         IN IF ule(neg_rhs_min, get_signed_min_value(t))
            THEN wrapping_div_i64(get_signed_max_value(t), get_signed_max_value(other))
            ELSE {}
    ELSE {}

signed_div(t, other) ==
    IF is_bottom(t) \/ is_bottom(other) THEN bottom
    ELSE IF is_singleton(t) /\ is_singleton(other)
    THEN new(udivmod(t.value, other.value).quot, {})
    ELSE IF is_nonnegative(t) /\ is_nonnegative(other) THEN udiv(t, other)
    ELSE IF is_negative(t) /\ is_negative(other)
            /\ t.value = I64_MIN /\ is_singleton(other) /\ other.value = U64_MAX
    THEN top
    ELSE LET tmp == signed_div_tmp(t, other)
         IN IF tmp = {} THEN top
            ELSE IF ~is_neg64(tmp)
            THEN tnum_clear_high_bits(top, leading_zeros(tmp, W))
            ELSE LET lead_ones == leading_zeros(bnot(tmp, W), W)
                     high_mask == (W - lead_ones)..(W - 1)
                 IN IF lead_ones > 0
                    THEN new(high_mask, U64_MAX \ high_mask)
                    ELSE top

sdiv(t, other) ==
    IF is_bottom(t) \/ is_bottom(other) THEN bottom
    ELSE IF is_top(t) \/ is_top(other) THEN top
    ELSE IF other.value = {} THEN top
    ELSE IF t.mask = {} /\ other.mask = {}
    THEN new(udivmod(t.value, other.value).quot, {})
    ELSE LET t0 == get_zero_circle(t)
             t1 == get_one_circle(t)
             x0 == get_zero_circle(other)
             x1 == get_one_circle(other)
             res00 == signed_div(t0, x0)
             res01 == signed_div(t0, x1)
             res10 == signed_div(t1, x0)
             res11 == signed_div(t1, x1)
         IN or(or(or(res00, res01), res10), res11)

rem_get_low_bits(l, r) ==
    IF ~is_zero(r) /\ 0 \notin r.value /\ 0 \notin r.mask
    THEN LET qzero == count_min_trailing_zeros(r)
         IN IF qzero = 0 THEN top
            ELSE LET mask == IF qzero > 1 THEN 0..(qzero - 1) ELSE {}
                 IN new(l.value \cap mask, l.mask \cap mask)
    ELSE top

urem_pow2_keeps_mask(t, other) ==
    IF is_bottom(t) \/ is_bottom(other) THEN bottom
    ELSE IF is_top(t) \/ is_top(other) THEN top
    ELSE IF other.value = {} THEN top
    ELSE LET res0 == rem_get_low_bits(t, other)
         IN IF other.mask = {} /\ (W - 1) \notin other.value
               /\ trailing_zeros(other.value, W) + leading_zeros(other.value, W) + 1 = W
            THEN LET low_bits == wrapping_sub(other.value, {0}, W)
                 IN new(low_bits \cap t.value, t.mask \ t.value)
            ELSE LET lead == IF count_min_leading_zeros(t) >= count_min_leading_zeros(other)
                             THEN count_min_leading_zeros(t)
                             ELSE count_min_leading_zeros(other)
                 IN tnum_clear_high_bits(res0, lead)
\* Tnum::urem
urem(t, other) ==
    IF is_bottom(t) \/ is_bottom(other) THEN bottom
    ELSE IF is_top(t) \/ is_top(other) THEN top
    ELSE IF other.value = {} THEN top
    ELSE LET res0 == rem_get_low_bits(t, other)
         IN IF other.mask = {} /\ (W - 1) \notin other.value
               /\ trailing_zeros(other.value, W) + leading_zeros(other.value, W) + 1 = W
            THEN LET low_bits == wrapping_sub(other.value, {0}, W)
                 IN new(low_bits \cap t.value, low_bits \cap t.mask)
            ELSE LET lead == IF count_min_leading_zeros(t) >= count_min_leading_zeros(other)
                             THEN count_min_leading_zeros(t)
                             ELSE count_min_leading_zeros(other)
                 IN tnum_clear_high_bits(res0, lead)

\* Tnum::srem divides two constants before it looks at the divisor:
\* wrapping_rem panics on a zero divisor
srem_panics(t, other) ==
    ~is_bottom(t) /\ ~is_bottom(other) /\ ~is_top(t) /\ ~is_top(other)
    /\ is_singleton(t) /\ is_singleton(other) /\ other.value = {}

\* Tnum::srem where it returns
srem(t, other) ==
    IF is_bottom(t) \/ is_bottom(other) THEN bottom
    ELSE IF is_top(t) \/ is_top(other) THEN top
    ELSE IF is_singleton(t) /\ is_singleton(other)
    THEN new(wrapping_rem_i64(t.value, other.value), {})
    ELSE IF other.value = {} THEN top
    ELSE LET res0 == rem_get_low_bits(t, other)
         IN IF other.mask = {} /\ 0 \notin other.value
               /\ trailing_zeros(other.value, W) + leading_zeros(other.value, W) + 1 = W
            THEN LET low_bits == wrapping_sub(other.value, {0}, W)
                     res1 == IF is_nonnegative(t)
                                \/ trailing_zeros(other.value, W) <= count_min_trailing_zeros(t)
                             THEN new(low_bits \cap res0.value, low_bits \cap res0.mask)
                             ELSE res0
                 IN IF is_negative(t) /\ bnot(t.value \cap low_bits, W) = {}
                    THEN new(bnot(low_bits, W) \cup res1.value, low_bits \cap res1.mask)
                    ELSE res1
            ELSE LET leadingz == count_min_leading_zeros(t)
                 IN new(clear_high_bits(res0.value, leadingz), clear_high_bits(res0.mask, leadingz))

----------------------------------------------------------------------------
(* TnumU128 *)

add128(t, other) == add_w(t, other, W2)

\* one pass of the accumulation loop of TnumU128::mul
mul128_step(a, b, acc_m) ==
    IF 0 \in a.value THEN add128(acc_m, new({}, b.mask))
    ELSE IF 0 \in a.mask THEN add128(acc_m, new({}, b.value \cup b.mask))
    ELSE acc_m

\* one pass of the loop of TnumU128::mul
mul128_pass(s) ==
    IF s.a.value = {} /\ s.a.mask = {} THEN [s EXCEPT !.ended = TRUE]
    ELSE [a |-> new(wrapping_shr(s.a.value, 1, W2), wrapping_shr(s.a.mask, 1, W2)),
          b |-> new(wrapping_shl(s.b.value, 1, W2), wrapping_shl(s.b.mask, 1, W2)),
          acc |-> mul128_step(s.a, s.b, s.acc), n |-> s.n + 1, ended |-> FALSE]

RECURSIVE mul128_passes(_, _)
\* up to 2^k passes of the loop of TnumU128::mul, in order
mul128_passes(k, s) ==
    IF s.ended THEN s
    ELSE IF k = 0 THEN mul128_pass(s)
    ELSE LET s1 == mul128_passes(k - 1, s)
         IN IF s1.ended THEN s1 ELSE mul128_passes(k - 1, s1)

\* the loop of TnumU128::mul
mul128_loop(a, b) ==
    mul128_passes(LoopLog, [a |-> a, b |-> b, acc |-> new({}, {}), n |-> 0, ended |-> FALSE])

mul128(t, other) ==
    LET acc_v == wrapping_mul(t.value, other.value, W2)
        acc_m == mul128_loop(t, other).acc
    IN add128(new(acc_v, {}), acc_m)

----------------------------------------------------------------------------
(* The reciprocal-constant generator DividerU64::divide_by, a crate outside  *)
(* the repository: for a divisor d > 0 one of                                *)
(*   BitShift(shift)            d = 2^shift                                  *)
(*   Fast{magic, shift}         n / d = ((n * magic) >> 64) >> shift         *)
(*   General{magic_low, shift}  q = (n * magic_low) >> 64,                   *)
(*                              n / d = (((n - q) >> 1) + q) >> shift        *)

divide_by(d) ==
    LET floor_log_2_d == MaxBit(d)
    IN IF Cardinality(d) = 1
       THEN [kind |-> "BitShift", magic |-> {}, shift |-> floor_log_2_d]
       ELSE LET u == udivmod({floor_log_2_d + W}, d)
                e == wrapping_sub(d, u.rem, W)
            IN IF ult(e, {floor_log_2_d})
               THEN [kind |-> "Fast",
                     magic |-> wrapping_add(u.quot \cap U64_MAX, {0}, W),
                     shift |-> floor_log_2_d]
               ELSE LET m == udivmod({floor_log_2_d + 1 + W}, d).quot
                    IN [kind |-> "General",
                        magic |-> wrapping_add(m \cap U64_MAX, {0}, W),
                        shift |-> floor_log_2_d]

\* DividerU64::divide, the scalar division the generator's constants are for
divide(dv, n) ==
    IF dv.kind = "Fast"
    THEN wrapping_shr(wrapping_shr(wrapping_mul(n, dv.magic, W2), W, W2), dv.shift, W)
    ELSE IF dv.kind = "BitShift" THEN wrapping_shr(n, dv.shift, W)
    ELSE LET q == wrapping_shr(wrapping_mul(n, dv.magic, W2), W, W2)
             t == wrapping_add(wrapping_shr(wrapping_sub(n, q, W), 1, W), q, W)
         IN wrapping_shr(t, dv.shift, W)

----------------------------------------------------------------------------
(* Tnum::fast_divide *)

\* the `>> 32` of the Fast branch
HalfShift == 32

\* the Fast branch: the low 64 bits of the product, shifted by 32 and by shift
fast_branch(t, magic, shift) ==
    LET product == wrapping_mul(t.value, magic, W)
        high_part == wrapping_shr(product, HalfShift, W)
        result_value == wrapping_shr(high_part, shift, W)
        mask_product == wrapping_mul(t.mask, magic, W)
        mask_high == wrapping_shr(mask_product, HalfShift, W)
        result_mask == wrapping_shr(mask_high, shift, W)
    IN new(result_value, result_mask)

\* the General branch with q taken from the low half of the product
general_branch_low_half(t, magic_low, shift) ==
    LET self_u128 == new(t.value, t.mask)
        other_u128 == new(magic_low, {})
        temp == mul128(self_u128, other_u128)
        q == new(temp.value \cap U64_MAX, temp.mask \cap U64_MAX)
        res0 == add(tnum_rshift(sub(t, q), 1), q)
    IN tnum_rshift(res0, shift)

\* the General branch
general_branch(t, magic_low, shift) ==
    LET self_u128 == new(t.value, t.mask)
        other_u128 == new(magic_low, {})
        temp == mul128(self_u128, other_u128)
        q == new(wrapping_shr(temp.value, W, W2), wrapping_shr(temp.mask, W, W2))
        res0 == add(tnum_rshift(sub(t, q), 1), q)
    IN tnum_rshift(res0, shift)

\* Tnum::fast_divide
fast_divide(t, other) ==
    IF other.mask = {} /\ other.value = {} THEN top
    ELSE IF other.mask = {} /\ other.value = {0} THEN t
    ELSE IF other.mask = {}
    THEN LET divider == divide_by(other.value)
         IN IF divider.kind = "Fast" THEN fast_branch(t, divider.magic, divider.shift)
            ELSE IF divider.kind = "BitShift" THEN tnum_rshift(t, divider.shift)
            ELSE general_branch(t, divider.magic, divider.shift)
    ELSE sdiv(t, other)

----------------------------------------------------------------------------
(* Membership of a concrete word *)

\* `(correct_result ^ r.value) & !r.mask == 0`
in_range(w, t) == bxor(w, t.value) \ t.mask = {}

\* value & mask = 0: a tnum that is not bottom
WellFormed(t) == t.value \cap t.mask = {}

\* w is a member of t, and t is a tnum that has members
Member(w, t) == WellFormed(t) /\ in_range(w, t)

----------------------------------------------------------------------------
(* Operands the calls are made with *)

\* operand values and masks run over 0..MaxVal
MaxVal == 3
\* dividend values and masks run over 0..MaxDividend
MaxDividend == 8
\* constant divisors run over 1..MaxDiv, and over every power of two
MaxDiv == 7
\* constant shift amounts run over 0..MaxShift, and over 63, 64, 65
MaxShift == 3
\* the unknown bits of an operand that members are enumerated over:
\* 0..ProbeLow and the sign bit
ProbeLow == 2

\* interval ends of from_range run over 0..MaxRange
MaxRange == 7

\* the left operand of mul_opt runs over value and mask in 0..MaxMul as well
MaxMul == 7

\* the fuel of a direct call of xtnum_mul_high runs over 0..MaxFuel
MaxFuel == 2

ProbeBits == (0..ProbeLow) \cup {W - 1}

\* members of t: every choice of its unknown ProbeBits, the other unknown
\* bits all clear or all set
Concretes(t) ==
    IF ~WellFormed(t) THEN {}
    ELSE {t.value \cup s : s \in SUBSET (t.mask \cap ProbeBits)}
         \cup {t.value \cup (t.mask \ ProbeBits) \cup s : s \in SUBSET (t.mask \cap ProbeBits)}

SmallTnums(n) ==
    {new(Bits(p[1]), Bits(p[2])) :
        p \in {q \in (0..n) \X (0..n) : Bits(q[1]) \cap Bits(q[2]) = {}}}

\* each tnum of S, and the same with the sign bit known set, or unknown
SignVariants(S) ==
    S \cup {new(t.value \cup {W - 1}, t.mask) : t \in S}
      \cup {new(t.value, t.mask \cup {W - 1}) : t \in S}

\* top, bottom, -1, {-2, -1}, and a tnum whose sign bit is both known and unknown
Specials ==
    {top, bottom, const_val(U64_MAX), new(U64_MAX \ {0}, {0}), new({W - 1}, {W - 1})}

Operands == SignVariants(SmallTnums(MaxVal)) \cup Specials

\* the constants divide_by gives for the divisors up to MaxDiv that take the
\* General branch
GeneralDividers ==
    {x \in {divide_by(Bits(d)) : d \in 2..MaxDiv} : x.kind = "General"}

\* magic_low of the General branch: those constants, and 0, 2^63, 2^64 - 1
GeneralMagics == {dv.magic : dv \in GeneralDividers} \cup {{}, {W - 1}, U64_MAX}

\* shift of the General branch: those constants, and 0 and 63
GeneralShifts == {dv.shift : dv \in GeneralDividers} \cup {0, W - 1}

\* a second operand: 0, 1, {0, 1}, top, bottom, -1, {-2, -1} and the tnum
\* whose sign bit is both known and unknown
FewOperands == SmallTnums(1) \cup Specials

Multiplicands == SmallTnums(MaxMul) \cup Operands

\* the operands with few bits set in value or mask (xtnum_mul_high_top makes
\* one recursive call for each such bit)
SparseOperands == {t \in Operands : Cardinality(t.value \cup t.mask) <= MaxVal}

ShiftAmounts ==
    Operands \cup {const_val(Bits(W - 1)), const_val(Bits(W)),
                   new({}, Bits(W - 1)), new({}, Bits(2 * W - 1))}

ShiftWords == {Bits(k) : k \in 0..MaxShift} \cup {Bits(W - 1), Bits(W), Bits(W + 1)}

Dividends == SmallTnums(MaxDividend) \cup Operands

\* interval ends run over 0..MaxRange, the same above 2^63, and the largest
\* signed and unsigned words
RangeWords ==
    {Bits(v) : v \in 0..MaxRange} \cup {Bits(v) \cup {W - 1} : v \in 0..MaxRange}
    \cup {I64_MAX, U64_MAX}

PowersOfTwo == {const_val({k}) : k \in 0..(W - 1)}

Divisors == {const_val(Bits(d)) : d \in 1..MaxDiv} \cup PowersOfTwo \cup Operands

----------------------------------------------------------------------------
(* FastDivideVerifier: the search for a pair whose quotient fast_divide misses *)

\* the search bound `max_search` (1000 in the code) is MaxSearch
MaxSearch == 12

\* `for dividend_value in 0..=1000u64`
SearchDividends == {Bits(n) : n \in 0..MaxSearch}

\* `for divisor_value in 3..=3u64`
SearchDivisors == {Bits(3)}

\* the values the solver may give a_val and b_val: a_val <= max_search,
\* 1 <= b_val <= max_search
BoundedDividends == {Bits(n) : n \in 0..MaxSearch}
BoundedDivisors == {Bits(d) : d \in 1..MaxSearch}

\* the containment test of one enumerated pair, not negated
this_is_in_range(a_val, b_val, dividend_value, divisor_value) ==
    /\ a_val = dividend_value /\ b_val = divisor_value
    /\ in_range(udivmod(dividend_value, divisor_value).quot,
                fast_divide(const_val(dividend_value), const_val(divisor_value)))

\* `this_is_counterexample` for one enumerated pair: a_val and b_val are the
\* pair and the true quotient is outside the result of fast_divide
this_is_counterexample(a_val, b_val, dividend_value, divisor_value) ==
    /\ a_val = dividend_value /\ b_val = divisor_value
    /\ ~in_range(udivmod(dividend_value, divisor_value).quot,
                 fast_divide(const_val(dividend_value), const_val(divisor_value)))

\* `counterexample_found == 1`: the disjunction over the enumerated pairs
counterexample_found(a_val, b_val) ==
    \E dividend_value \in SearchDividends, divisor_value \in SearchDivisors :
        this_is_counterexample(a_val, b_val, dividend_value, divisor_value)

\* the assignments of <<a_val, b_val>> that satisfy every asserted constraint
Models ==
    {m \in BoundedDividends \X BoundedDivisors : counterexample_found(m[1], m[2])}

----------------------------------------------------------------------------
(* The calls *)

\* pc    "idle" between calls, "done" when a call has ended
\* op    the operation called
\* lhs   self
\* rhs   the second argument (a u64 shift amount k is held as const_val(k))
\* res   the tnum returned
\* flag  the bool returned (contains, le, eq)
\* fault the call panicked and returned nothing
\* arg   a third, scalar argument: the fuel n of xtnum_mul_high, the shift
\*       of the General branch of fast_divide; in a running multiply, the
\*       number of passes its loop has made
\* loop  the locals a, b, acc_v and acc_m of a running multiply
VARIABLES pc, op, lhs, rhs, res, flag, fault, arg, loop
vars == <<pc, op, lhs, rhs, res, flag, fault, arg, loop>>

\* the locals of a multiply before its loop is entered
NoLoop == [a |-> new({}, {}), b |-> new({}, {}), acc_v |-> {}, acc |-> new({}, {})]

Init ==
    /\ pc = "idle"
    /\ op = "none"
    /\ lhs = top
    /\ rhs = top
    /\ res = top
    /\ flag = FALSE
    /\ fault = FALSE
    /\ arg = 0
    /\ loop = NoLoop

\* a call that returns r
Returns(name, t, other, r) ==
    /\ pc' = "done"
    /\ op' = name
    /\ lhs' = t
    /\ rhs' = other
    /\ res' = r
    /\ fault' = FALSE
    /\ UNCHANGED <<flag, arg, loop>>

\* a call that returns the bool b
ReturnsBool(name, t, other, b) ==
    /\ pc' = "done"
    /\ op' = name
    /\ lhs' = t
    /\ rhs' = other
    /\ flag' = b
    /\ fault' = FALSE
    /\ UNCHANGED <<res, arg, loop>>

\* a call that panics
Panics(name, t, other) ==
    /\ pc' = "done"
    /\ op' = name
    /\ lhs' = t
    /\ rhs' = other
    /\ fault' = TRUE
    /\ UNCHANGED <<res, flag, arg, loop>>

\* a call with the scalar argument n that returns r
ReturnsWithArg(name, t, other, n, r) ==
    /\ pc' = "done"
    /\ op' = name
    /\ lhs' = t
    /\ rhs' = other
    /\ res' = r
    /\ arg' = n
    /\ UNCHANGED loop
    /\ fault' = FALSE
    /\ UNCHANGED flag

Add ==
    /\ pc = "idle"
    /\ \E t \in Operands, other \in Operands :
           Returns("add", t, other, add(t, other))

Sub ==
    /\ pc = "idle"
    /\ \E t \in Operands, other \in Operands :
           Returns("sub", t, other, sub(t, other))

Xor ==
    /\ pc = "idle"
    /\ \E t \in Operands, other \in Operands :
           Returns("xor", t, other, xor(t, other))

Not ==
    /\ pc = "idle"
    /\ \E t \in Operands :
           Returns("not", t, rhs, not(t))

Mul ==
    /\ pc = "idle"
    /\ \E t \in Operands, other \in Operands :
           Returns("mul", t, other, mul(t, other))

Shl ==
    /\ pc = "idle"
    /\ \E t \in Operands, x \in ShiftAmounts :
           Returns("shl", t, x, shl(t, x))

LshrReturns ==
    /\ pc = "idle"
    /\ \E t \in Operands, x \in ShiftAmounts :
           Returns("lshr", t, x, lshr(t, x))

LshrPanics ==
    /\ pc = "idle"
    /\ \E t \in Operands, x \in ShiftAmounts :
           lshr_overflows(t, x) /\ Panics("lshr", t, x)

ShlConst ==
    /\ pc = "idle"
    /\ \E t \in Operands, k \in ShiftWords :
           Returns("shl_const", t, const_val(k), shl_const(t, k))

LshrConst ==
    /\ pc = "idle"
    /\ \E t \in Operands, k \in ShiftWords :
           Returns("lshr_const", t, const_val(k), lshr_const(t, k))

AshrConst ==
    /\ pc = "idle"
    /\ \E t \in Operands, k \in ShiftWords :
           Returns("ashr_const", t, const_val(k), ashr_const(t, k))

Join ==
    /\ pc = "idle"
    /\ \E t \in Operands, other \in Operands :
           Returns("join", t, other, join(t, other))

Or ==
    /\ pc = "idle"
    /\ \E t \in Operands, other \in Operands :
           Returns("or", t, other, or(t, other))

And ==
    /\ pc = "idle"
    /\ \E t \in Operands, other \in Operands :
           Returns("and", t, other, and(t, other))

\* (the sum of Tnum::udiv is checked for overflow as lshr's is; it wraps
\* where the check is compiled out)
Udiv ==
    /\ pc = "idle"
    /\ \E t \in Dividends, other \in Operands :
           IF udiv_overflows(t, other)
           THEN Panics("udiv", t, other)
           ELSE Returns("udiv", t, other, udiv(t, other))

Sdiv ==
    /\ pc = "idle"
    /\ \E t \in Dividends, other \in Operands :
           Returns("sdiv", t, other, sdiv(t, other))

Urem ==
    /\ pc = "idle"
    /\ \E t \in Dividends, other \in Operands \cup PowersOfTwo :
           Returns("urem", t, other, urem(t, other))

Srem ==
    /\ pc = "idle"
    /\ \E t \in Dividends, other \in Operands :
           IF srem_panics(t, other)
           THEN Panics("srem", t, other)
           ELSE Returns("srem", t, other, srem(t, other))

FastDivide ==
    /\ pc = "idle"
    /\ \E t \in Dividends, other \in Divisors :
           Returns("fast_divide", t, other, fast_divide(t, other))

\* (min and max are held as const_val(min) and const_val(max))
FromRange ==
    /\ pc = "idle"
    /\ \E min \in RangeWords, max \in RangeWords :
           Returns("from_range", const_val(min), const_val(max), from_range(min, max))

Contains ==
    /\ pc = "idle"
    /\ \E t \in Operands, other \in Operands :
           ReturnsBool("contains", t, other, contains(t, other))

Le ==
    /\ pc = "idle"
    /\ \E t \in Operands, other \in Operands :
           ReturnsBool("le", t, other, le(t, other))

Eq ==
    /\ pc = "idle"
    /\ \E t \in Operands, other \in Operands :
           ReturnsBool("eq", t, other, eq(t, other))

Intersect ==
    /\ pc = "idle"
    /\ \E t \in Operands, other \in Operands :
           Returns("intersect", t, other, intersect(t, other))

MulOpt ==
    /\ pc = "idle"
    /\ \E t \in Multiplicands, other \in Operands :
           Returns("mul_opt", t, other, mul_opt(t, other))

\* the General arm of fast_divide, entered with magic_low and shift
GeneralBranch ==
    /\ pc = "idle"
    /\ \E t \in Dividends, magic_low \in GeneralMagics, shift \in GeneralShifts :
           ReturnsWithArg("general_branch", t, const_val(magic_low), shift,
                          general_branch(t, magic_low, shift))

XtnumMulHigh ==
    /\ pc = "idle"
    /\ \E t \in Operands, y \in FewOperands, n \in 0..MaxFuel :
           ReturnsWithArg("xtnum_mul_high", t, y, n, xtnum_mul_high(t, y, n))

XtnumMulHighTop ==
    /\ pc = "idle"
    /\ \E t \in SparseOperands, other \in SparseOperands :
           ReturnsWithArg("xtnum_mul_high_top", t, other, top_fuel(t, other),
                           xtnum_mul_high_top(t, other))

\* verify_fast_divide_correctness: the solver answers Sat with one of the
\* models, or Unsat when there is none; on Sat the pair of the model is
\* divided again (flag is the verdict, lhs and rhs the pair as constants)
VerifyFastDivideCorrectness ==
    /\ pc = "idle"
    /\ IF Models = {}
       THEN ReturnsBool("verify_fast_divide_correctness", lhs, rhs, FALSE)
       ELSE \E m \in Models :
                /\ pc' = "done"
                /\ op' = "verify_fast_divide_correctness"
                /\ lhs' = const_val(m[1])
                /\ rhs' = const_val(m[2])
                /\ res' = fast_divide(const_val(m[1]), const_val(m[2]))
                /\ flag' = TRUE
                /\ fault' = FALSE
                /\ UNCHANGED <<arg, loop>>

\* the caller takes the result; the next call starts from the same place
Return ==
    /\ pc = "done"
    /\ pc' = "idle"
    /\ op' = "none"
    /\ lhs' = top
    /\ rhs' = top
    /\ res' = top
    /\ flag' = FALSE
    /\ fault' = FALSE
    /\ arg' = 0
    /\ loop' = NoLoop

Next ==
    \/ Add \/ Sub \/ Xor \/ Not \/ Mul
    \/ Shl \/ LshrReturns \/ LshrPanics
    \/ ShlConst \/ LshrConst \/ AshrConst
    \/ Join \/ Or \/ And
    \/ Udiv \/ Sdiv \/ Urem \/ Srem
    \/ FastDivide
    \/ FromRange
    \/ Contains
    \/ Le \/ Eq
    \/ Intersect
    \/ MulOpt
    \/ GeneralBranch
    \/ XtnumMulHigh \/ XtnumMulHighTop
    \/ VerifyFastDivideCorrectness
    \/ Return

Spec == Init /\ [][Next]_vars

TypeOK ==
    /\ pc \in {"idle", "done"}
    /\ fault \in BOOLEAN
    /\ flag \in BOOLEAN
    /\ arg \in 0..(2 * W)
    /\ loop = NoLoop
    /\ lhs.value \subseteq U64_MAX /\ lhs.mask \subseteq U64_MAX
    /\ rhs.value \subseteq U64_MAX /\ rhs.mask \subseteq U64_MAX
    /\ res.value \subseteq U64_MAX /\ res.mask \subseteq U64_MAX

----------------------------------------------------------------------------
(* The multiply loops, pass by pass *)

\* the multipliers the loops are followed for: 0, 1, {0, 1}, their sign-bit
\* variants, and top, bottom, -1, {-2, -1}
Multipliers == SignVariants(SmallTnums(1)) \cup Specials

\* multipliers of TnumU128::mul: those of Tnum, and 128-bit ones with the top
\* bit known set or unknown, or every bit unknown
Multipliers128 ==
    Multipliers
    \cup {new(t.value \cup {W2 - 1}, t.mask) : t \in SmallTnums(1)}
    \cup {new(t.value, t.mask \cup {W2 - 1}) : t \in SmallTnums(1)}
    \cup {new({}, 0..(W2 - 1))}

\* passes are counted up to MaxPasses, more than a loop that ends can make
MaxPasses == 2 * W2

\* the loop state of a multiply as mul_pass and mul128_pass take it
loop_state == [a |-> loop.a, b |-> loop.b, acc |-> loop.acc, n |-> arg, ended |-> FALSE]

\* the loop state after pass s
LoopStep(s) ==
    /\ loop' = [a |-> s.a, b |-> s.b, acc_v |-> loop.acc_v, acc |-> s.acc]
    /\ arg' = IF s.n < MaxPasses THEN s.n ELSE MaxPasses
    /\ UNCHANGED <<pc, op, lhs, rhs, res, flag, fault>>

\* Tnum::mul up to its loop: bottom and top return at once
MulEnter ==
    /\ pc = "idle"
    /\ \E t \in Multipliers, other \in FewOperands :
           IF is_bottom(t) \/ is_bottom(other) THEN Returns("mul", t, other, bottom)
           ELSE IF is_top(t) \/ is_top(other) THEN Returns("mul", t, other, top)
           ELSE /\ pc' = "mul_loop"
                /\ op' = "mul"
                /\ lhs' = t
                /\ rhs' = other
                /\ loop' = [a |-> t, b |-> other,
                            acc_v |-> wrapping_mul(t.value, other.value, W),
                            acc |-> new({}, {})]
                /\ UNCHANGED <<res, flag, fault, arg>>

\* one pass of the loop of Tnum::mul
MulIterate ==
    /\ pc = "mul_loop"
    /\ ~mul_pass(loop_state).ended
    /\ LoopStep(mul_pass(loop_state))

\* the loop of Tnum::mul has ended: `Tnum::new(acc_v, 0).add(acc_m)`
MulExit ==
    /\ pc = "mul_loop"
    /\ mul_pass(loop_state).ended
    /\ pc' = "done"
    /\ res' = add(new(loop.acc_v, {}), loop.acc)
    /\ fault' = FALSE
    /\ UNCHANGED <<op, lhs, rhs, flag, arg, loop>>

\* TnumU128::mul up to its loop
Mul128Enter ==
    /\ pc = "idle"
    /\ \E t \in Multipliers128, other \in FewOperands \cup {new({}, 0..(W2 - 1))} :
           /\ pc' = "mul128_loop"
           /\ op' = "mul128"
           /\ lhs' = t
           /\ rhs' = other
           /\ loop' = [a |-> t, b |-> other,
                       acc_v |-> wrapping_mul(t.value, other.value, W2),
                       acc |-> new({}, {})]
           /\ UNCHANGED <<res, flag, fault, arg>>

\* one pass of the loop of TnumU128::mul
Mul128Iterate ==
    /\ pc = "mul128_loop"
    /\ ~mul128_pass(loop_state).ended
    /\ LoopStep(mul128_pass(loop_state))

\* the loop of TnumU128::mul has ended: `Self::new(acc_v, 0).add(acc_m)`
Mul128Exit ==
    /\ pc = "mul128_loop"
    /\ mul128_pass(loop_state).ended
    /\ pc' = "done"
    /\ res' = add128(new(loop.acc_v, {}), loop.acc)
    /\ fault' = FALSE
    /\ UNCHANGED <<op, lhs, rhs, flag, arg, loop>>

LoopNext ==
    \/ MulEnter \/ MulIterate \/ MulExit
    \/ Mul128Enter \/ Mul128Iterate \/ Mul128Exit
    \/ Return

LoopSpec == Init /\ [][LoopNext]_vars

----------------------------------------------------------------------------
(* Properties of the calls *)

\* a call of one of the named operations has returned
Returned(names) == pc = "done" /\ op \in names /\ ~fault

\* a constant tnum that is not zero
ConstDivisor(t) == t.mask = {} /\ t.value # {}

\* floor(a / d) for d # 0
floor_div(a, d) == udivmod(a, d).quot

\* C1: when fast_divide has returned for a well-formed dividend and a constant
\* divisor d >= 1, the quotient floor(a / d) of every member a of the dividend
\* is a member of the result.
FastDivideSound ==
    (Returned({"fast_divide"}) /\ WellFormed(lhs) /\ ConstDivisor(rhs))
        => \A a \in Concretes(lhs) : in_range(floor_div(a, rhs.value), res)

\* C2: for a constant dividend n and a constant divisor d >= 1 the result F of
\* fast_divide is below the result S of sdiv (F.le(S)), and floor(n / d) is a
\* member of both.
FastDivideConstBelowSdiv ==
    (Returned({"fast_divide"}) /\ lhs.mask = {} /\ ConstDivisor(rhs))
        => LET S == sdiv(lhs, rhs)
               q == floor_div(lhs.value, rhs.value)
           IN le(res, S) /\ in_range(q, res) /\ in_range(q, S)

\* C3: for a well-formed dividend and a constant divisor d >= 1 the results F
\* of fast_divide and S of sdiv are comparable: F.le(S) or S.le(F).
FastDivideSdivComparable ==
    (Returned({"fast_divide"}) /\ WellFormed(lhs) /\ ConstDivisor(rhs))
        => LET S == sdiv(lhs, rhs)
           IN le(res, S) \/ le(S, res)

\* the operations with a second tnum operand
Binary ==
    {"add", "sub", "xor", "mul", "shl", "lshr", "join", "or", "and",
     "udiv", "sdiv", "urem", "srem", "fast_divide"}

\* the operands of the call are well-formed tnums
OperandsWellFormed == WellFormed(lhs) /\ (op \in Binary => WellFormed(rhs))

\* C4: a tnum returned by any of the eighteen operations for well-formed
\* operands is the bottom element or is well-formed.
WellFormednessPreserved ==
    (Returned(Binary \cup {"not", "shl_const", "lshr_const", "ashr_const"})
     /\ OperandsWellFormed)
        => (res = bottom \/ WellFormed(res))

\* C5: a call of add, sub, xor, mul, shl, lshr, udiv, sdiv, urem, srem or
\* fast_divide with the bottom element as either operand returns the bottom
\* element.
BottomAbsorbing ==
    (pc = "done"
     /\ op \in {"add", "sub", "xor", "mul", "shl", "lshr",
                "udiv", "sdiv", "urem", "srem", "fast_divide"}
     /\ (lhs = bottom \/ rhs = bottom))
        => (~fault /\ res = bottom)

\* C6: a call of udiv, sdiv, urem, srem or fast_divide with a well-formed
\* dividend and a well-formed divisor that may be zero (its value is 0) does
\* not panic and returns top.
DivisionByPossiblyZeroIsTop ==
    (pc = "done"
     /\ op \in {"udiv", "sdiv", "urem", "srem", "fast_divide"}
     /\ WellFormed(lhs) /\ WellFormed(rhs) /\ rhs.value = {})
        => (~fault /\ res = top)

\* the divisor is the constant 2^k
PowerOfTwoDivisor == rhs.mask = {} /\ Cardinality(rhs.value) = 1

\* C7: when fast_divide has returned for a well-formed dividend and the
\* divisor 2^k, k in 0..63, the result is well-formed and a >> k is a member
\* of it for every member a of the dividend; for the dividend top every word
\* below 2^(64-k), which is every quotient, is a member.
FastDividePowerOfTwoSound ==
    (Returned({"fast_divide"}) /\ WellFormed(lhs) /\ PowerOfTwoDivisor)
        => LET k == MaxBit(rhs.value)
           IN /\ \A a \in Concretes(lhs) : Member(wrapping_shr(a, k, W), res)
              /\ lhs = top => res = new({}, 0..(W - 1 - k))

\* top().fast_divide(const_val(4)) has returned
FastDividePowerOfTwoSeen ==
    /\ Returned({"fast_divide"})
    /\ lhs = top
    /\ rhs = const_val({2})
    /\ res = new({}, 0..(W - 3))

\* C8: when add, sub or xor has returned for well-formed operands, the result
\* is well-formed and the wrapped sum, the wrapped difference or the exclusive
\* or of every member of self and every member of other is a member of it.
AddSubXorSound ==
    (Returned({"add", "sub", "xor"}) /\ WellFormed(lhs) /\ WellFormed(rhs))
        => \A a \in Concretes(lhs), b \in Concretes(rhs) :
               Member(CASE op = "add" -> wrapping_add(a, b, W)
                        [] op = "sub" -> wrapping_sub(a, b, W)
                        [] op = "xor" -> bxor(a, b),
                      res)

\* add, sub and xor have each been seen to return a tnum with unknown bits
\* for operands with unknown bits; here add, where a carry is uncertain
AddSubXorSeen ==
    /\ Returned({"add"})
    /\ lhs = new({0}, {1})
    /\ rhs = new({0}, {1})
    /\ res = new({}, {1, 2})

\* C9: when mul has returned for well-formed operands, the result is
\* well-formed and the wrapped product of every member of self and every
\* member of other is a member of it.
MulSound ==
    (Returned({"mul"}) /\ WellFormed(lhs) /\ WellFormed(rhs))
        => \A a \in Concretes(lhs), b \in Concretes(rhs) :
               Member(wrapping_mul(a, b, W), res)

\* mul has returned for two operands with unknown bits
MulSeen ==
    /\ Returned({"mul"})
    /\ lhs = new({0}, {1})
    /\ rhs = new({1}, {0})
    /\ WellFormed(res) /\ res.mask # {} /\ res # top

\* C10: when shl has returned for a well-formed self and a well-formed shift
\* amount, a << s is a member of the result for every member a of self and
\* every member s < 64 of the shift amount.
ShlSound ==
    (Returned({"shl"}) /\ WellFormed(lhs) /\ WellFormed(rhs))
        => \A a \in Concretes(lhs), s \in Concretes(rhs) :
               ult(s, Bits(W)) => in_range(wrapping_shl(a, ToInt(s), W), res)

\* C11: when lshr has returned for a well-formed self and a well-formed shift
\* amount, a >> s is a member of the result for every member a of self and
\* every member s < 64 of the shift amount.
LshrSound ==
    (Returned({"lshr"}) /\ WellFormed(lhs) /\ WellFormed(rhs))
        => \A a \in Concretes(lhs), s \in Concretes(rhs) :
               ult(s, Bits(W)) => in_range(wrapping_shr(a, ToInt(s), W), res)

\* the largest member of a well-formed tnum
MaxMember(t) == t.value \cup t.mask

SdivSound ==
    (Returned({"sdiv"}) /\ WellFormed(lhs) /\ WellFormed(rhs))
        => \A a \in Concretes(lhs), b \in Concretes(rhs) \ {{}} :
               ~(a = I64_MIN /\ b = U64_MAX)
                   => in_range(wrapping_div_i64(a, b), res)

\* a mod b for b # 0
umod(a, b) == udivmod(a, b).rem

\* a constant 2^k with k in 0..62, the divisors Tnum::urem masks by
UremPowerOfTwo(t) == t.mask = {} /\ Cardinality(t.value) = 1 /\ (W - 1) \notin t.value

\* C14: when urem has returned for well-formed operands, a mod b is a member
\* of the result for every member a of self and every member b # 0 of other;
\* when the divisor may not be zero and is not a known power of two, every
\* bit of the result from the divisor's trailing zeros up that is not a
\* leading zero of both operands' bounds is unknown.
UremSound ==
    (Returned({"urem"}) /\ WellFormed(lhs) /\ WellFormed(rhs))
        => /\ \A a \in Concretes(lhs), b \in Concretes(rhs) \ {{}} :
                  Member(umod(a, b), res)
           /\ (~is_top(lhs) /\ ~is_top(rhs) /\ rhs.value # {} /\ ~UremPowerOfTwo(rhs))
                  => \A i \in U64_MAX :
                         (/\ i >= MinBit(MaxMember(rhs))
                          /\ \E j \in MaxMember(lhs) : i <= j
                          /\ \E j \in MaxMember(rhs) : i <= j)
                             => i \in res.mask

\* C15: when urem has returned for a well-formed self that is not top and the
\* divisor 2^k, k in 0..62, the result is self with value and mask both
\* masked by 2^k - 1.
UremPowerOfTwoExact ==
    (Returned({"urem"}) /\ WellFormed(lhs) /\ ~is_top(lhs) /\ UremPowerOfTwo(rhs))
        => LET low == {i \in U64_MAX : i < MaxBit(rhs.value)}
           IN res = new(lhs.value \cap low, lhs.mask \cap low)

\* Tnum{0, 7}.urem(const_val(4)) has returned Tnum{0, 3}
UremPowerOfTwoSeen ==
    /\ Returned({"urem"})
    /\ lhs = new({}, {0, 1, 2})
    /\ rhs = const_val({2})
    /\ res = new({}, {0, 1})

\* the bits in which small interval ends differ
LowBits == {i \in U64_MAX : i < 16}

\* the words of [min, max], for ends that agree outside LowBits
Interval(min, max) ==
    {(min \ LowBits) \cup Bits(i) : i \in ToInt(min \cap LowBits)..ToInt(max \cap LowBits)}

\* the tnums a result of from_range is compared with
Enclosures == {t \in Operands \cup SignVariants(SmallTnums(MaxRange)) : WellFormed(t)}

\* C16: when from_range has returned for min <= max, the result is
\* well-formed and has every word of [min, max] as a member; it is below
\* (le) every well-formed tnum that has every word of [min, max] as a
\* member; and for min = max it is const_val(min).
FromRangeSmallest ==
    (Returned({"from_range"}) /\ ule(lhs.value, rhs.value))
        => LET min == lhs.value
               max == rhs.value
           IN /\ WellFormed(res)
              /\ \A w \in RangeWords : (ule(min, w) /\ ule(w, max)) => in_range(w, res)
              /\ (min \ LowBits = max \ LowBits)
                     => /\ \A w \in Interval(min, max) : in_range(w, res)
                        /\ \A t \in Enclosures :
                               (\A w \in Interval(min, max) : in_range(w, t)) => le(res, t)
              /\ min = max => res = const_val(min)

\* from_range(2, 5) has returned the tnum of 0..7
FromRangeSeen ==
    /\ Returned({"from_range"})
    /\ lhs = const_val({1})
    /\ rhs = const_val({0, 2})
    /\ res = new({}, {0, 1, 2})

\* every member of t is a member of u; exact, since Concretes(t) has each
\* unknown bit of t both clear and set
GammaSubset(t, u) == \A w \in Concretes(t) : Member(w, u)

\* C17: when contains has returned for well-formed operands, it has returned
\* true exactly when every member of other is a member of self.
ContainsDecidesInclusion ==
    (pc = "done" /\ op = "contains" /\ ~fault /\ WellFormed(lhs) /\ WellFormed(rhs))
        => (flag <=> GammaSubset(rhs, lhs))

\* a well-formed tnum or the bottom element
InLattice(t) == WellFormed(t) \/ t = bottom

\* C18: when le has returned for operands that are well-formed or the bottom
\* element, it has returned true exactly when every member of self is a member
\* of other (bottom has no member); le is reflexive, transitive and
\* antisymmetric; and eq returns true exactly when the operands are equal
\* field for field.
LeIsInclusionOrder ==
    (pc = "done" /\ ~fault /\ InLattice(lhs) /\ InLattice(rhs))
        => /\ op = "le"
               => /\ flag <=> GammaSubset(lhs, rhs)
                  /\ le(lhs, lhs)
                  /\ \A c \in {t \in Operands : InLattice(t)} :
                         (flag /\ le(rhs, c)) => le(lhs, c)
                  /\ (flag /\ le(rhs, lhs)) => lhs = rhs
           /\ op = "eq" => (flag <=> lhs = rhs)

\* le has returned true for a constant and a tnum with that bit unknown
LeSeen ==
    /\ pc = "done" /\ op = "le" /\ ~fault
    /\ lhs = const_val({0})
    /\ rhs = new({}, {0})
    /\ flag

\* C19: when join has returned J for operands A, B that are well-formed or
\* the bottom element, A.le(J) and B.le(J); J.le(C) for every C with A.le(C)
\* and B.le(C); join is commutative and associative; A.join(A) is A; and
\* bottom.join(B) is B.
JoinIsLeastUpperBound ==
    (Returned({"join"}) /\ InLattice(lhs) /\ InLattice(rhs))
        => /\ le(lhs, res) /\ le(rhs, res)
           /\ \A c \in {t \in Operands : InLattice(t)} :
                  /\ (le(lhs, c) /\ le(rhs, c)) => le(res, c)
                  /\ join(res, c) = join(lhs, join(rhs, c))
           /\ res = join(rhs, lhs)
           /\ lhs = rhs => res = lhs
           /\ lhs = bottom => res = rhs

\* some bit is known in both tnums, with different values
Disagree(t, u) == bxor(t.value, u.value) \ (t.mask \cup u.mask) # {}

\* C20: when and or intersect has returned for well-formed operands, the
\* result is the bottom element if the operands disagree on a bit known in
\* both, and otherwise a well-formed tnum whose members are exactly the words
\* that are members of both operands.
MeetIsGreatestLowerBound ==
    (Returned({"and", "intersect"}) /\ WellFormed(lhs) /\ WellFormed(rhs))
        => IF Disagree(lhs, rhs) THEN res = bottom
           ELSE /\ WellFormed(res)
                /\ \A w \in Concretes(lhs) \cup Concretes(rhs) \cup Concretes(res) :
                       Member(w, res) <=> (Member(w, lhs) /\ Member(w, rhs))

\* an operand of the call is not a constant
NotBothConstants == lhs.mask # {} \/ rhs.mask # {}

\* C21: a call of xtnum_mul_high entered with fuel 0 and an operand that is
\* not a constant ends in a panic and returns no tnum.
FuelExhaustionFatal ==
    (pc = "done" /\ op = "xtnum_mul_high" /\ arg = 0 /\ NotBothConstants)
        => fault

\* C22: for well-formed operands mul_opt returns the tnum that mul returns for
\* the same operands in the same order, field for field.
MulOptEqualsMul ==
    (Returned({"mul_opt"}) /\ WellFormed(lhs) /\ WellFormed(rhs))
        => res = mul(lhs, rhs)

\* the quotient of the constants n and d is outside const_val(n).fast_divide(const_val(d))
Violates(n, d) == ~in_range(floor_div(n, d), fast_divide(const_val(n), const_val(d)))

\* some pair of the declared range, n <= max_search and 1 <= d <= max_search,
\* violates containment
ViolationInRange == \E n \in BoundedDividends, d \in BoundedDivisors : Violates(n, d)

general_scalar(a, magic_low, shift) ==
    LET q == wrapping_shr(wrapping_mul(a, magic_low, W2), W, W2)
        t == wrapping_add(wrapping_shr(wrapping_sub(a, q, W), 1, W), q, W)
    IN wrapping_shr(t, shift, W)

\* C24: when the General branch has returned for a well-formed dividend, the
\* scalar result for every member a of the dividend is a member of the tnum
\* returned, and the 128-bit product of the dividend and magic_low contains
\* a * magic_low.
GeneralBranchSound ==
    (Returned({"general_branch"}) /\ WellFormed(lhs))
        => LET temp == mul128(new(lhs.value, lhs.mask), new(rhs.value, {}))
           IN \A a \in Concretes(lhs) :
                  /\ in_range(general_scalar(a, rhs.value, arg), res)
                  /\ in_range(wrapping_mul(a, rhs.value, W2), temp)

\* the General branch has returned for the dividend {8, ..., 15} with the
\* constants of the divisor 7; the result holds both quotients, 1 and 2
GeneralBranchSeen ==
    /\ Returned({"general_branch"})
    /\ lhs = new({3}, {0, 1, 2})
    /\ divide_by(Bits(7)).kind = "General"
    /\ rhs.value = divide_by(Bits(7)).magic /\ arg = divide_by(Bits(7)).shift
    /\ in_range({0}, res) /\ in_range({1}, res)

\* lshr_const or shl_const would take its top or bottom early return on a or b
EarlyReturnInLoop ==
    \/ is_top(loop.a) \/ is_bottom(loop.a)
    \/ is_top(loop.b) \/ is_bottom(loop.b)

\* the number of bits of a, at width w, up to its highest set or unknown one
bit_length(t, w) == w - leading_zeros(t.value \cup t.mask, w)

\* C25: every call of Tnum::mul returns after at most 64 passes of its loop
\* and every call of TnumU128::mul after at most 128: the passes made and the
\* bits left in the multiplier a never add up to more than the width, a pass
\* is made only while a has a bit left, and inside the loop of Tnum::mul
\* neither a nor b is top or bottom, so every pass shifts them.
MulTerminates ==
    /\ pc = "mul_loop" =>
           /\ ~EarlyReturnInLoop
           /\ arg + bit_length(loop.a, W) <= W
    /\ pc = "mul128_loop" => arg + bit_length(loop.a, W2) <= W2
    /\ (pc = "done" /\ op = "mul") => arg <= W
    /\ (pc = "done" /\ op = "mul128") => arg <= W2

\* a call of Tnum::mul has returned after 64 passes (the sign bit of the
\* multiplier is unknown)
MulTerminatesSeen ==
    /\ pc = "done" /\ op = "mul" /\ arg = W
    /\ (W - 1) \in lhs.mask

====
